---------------------------- MODULE Spec2Model ----------------------------
(***************************************************************************)
(* A model of camelot's PDFHandler (src/camelot/handlers.py) and of        *)
(* BaseParser._generate_layout (src/camelot/parsers/base.py).              *)
(*                                                                         *)
(* Python strings are sequences of one-character strings, so that          *)
(* str.isdigit, str.split, the `in` test and int() are computed on the     *)
(* characters.  A directory is a function from file names to file          *)
(* contents.  Two specifications share the variables:                      *)
(*   SpecPages : PDFHandler._get_pages applied to a selection string;      *)
(*   Spec      : PDFHandler.parse on a constructed handler, one step per   *)
(*               loop iteration of parse().                                *)
(***************************************************************************)
EXTENDS Integers, Sequences, FiniteSets, TLC

VARIABLES
    pagesArg,     \* the `pages` argument of PDFHandler.__init__
    numPages,     \* infile.getNumPages() of the source document
    docAuth,      \* "plain" | "encrypted_ok" | "encrypted_bad" (password wrong)
    pages,        \* self.pages
    pc,           \* position in __init__ / parse()
    flavor,       \* parse(flavor=...)
    pdf_layouts,  \* kwargs["pdf_layouts"], a mapping page -> layout or None
    pdf_sizes,    \* kwargs["pdf_sizes"]
    pdf_images,   \* kwargs["pdf_images"]
    page_info,    \* the list _check_page_data returned
    i,            \* index of the loop of parse() that is running
    tempdir,      \* the files of the TemporaryDirectory: name -> content
    layoutRuns,   \* page -> number of get_page_layout calls made for it
    saved,        \* page -> rotation verdict, for each completed _save_page
    parser,       \* the fields _generate_layout set last, or NoParser
    extracted,    \* pages handed to parser.extract_tables so far
    error         \* the exception that left parse(), or "none"

vars == <<pagesArg, numPages, docAuth, pages, pc, flavor, pdf_layouts,
          pdf_sizes, pdf_images, page_info, i, tempdir, layoutRuns, saved,
          parser, extracted, error>>

-----------------------------------------------------------------------------
(* Bounds of the model. *)

\* largest page number written in a selection string
MaxNum == 3
\* largest page count of a source document
MaxNumPages == 3
\* largest number of comma-separated tokens of a selection string
MaxTokens == 2
\* largest number of selected pages of a parse() run
MaxSelected == 2

-----------------------------------------------------------------------------
(* Python strings and the str / int operations _get_pages uses. *)

Digits == <<"0", "1", "2", "3", "4", "5", "6", "7", "8", "9">>

StrAll == <<"a", "l", "l">>
StrEnd == <<"e", "n", "d">>
StrX == <<"x">>
Dash == "-"
Comma == ","

IsDigitChar(c) == \E d \in 1..10 : Digits[d] = c

DigitVal(c) == (CHOOSE d \in 1..10 : Digits[d] = c) - 1

\* str.isdigit(): true for a non-empty string of digits only
IsDigit(s) == Len(s) > 0 /\ \A k \in 1..Len(s) : IsDigitChar(s[k])

\* int(s) of a string of decimal digits
RECURSIVE IntOf(_)
IntOf(s) ==
    IF Len(s) = 0 THEN 0
    ELSE 10 * IntOf(SubSeq(s, 1, Len(s) - 1)) + DigitVal(s[Len(s)])

\* int(s) raises ValueError unless s is a decimal literal; over the characters
\* of this model (digits, letters, "-", ",") those are the digit strings
IntRaises(s) == ~IsDigit(s)

\* `c in s`
Contains(s, c) == \E k \in 1..Len(s) : s[k] = c

\* index of the first c in s (s contains c)
FirstIndex(s, c) == CHOOSE k \in 1..Len(s) : s[k] = c /\ \A j \in 1..(k - 1) : s[j] # c

\* s.split(c): the list of the pieces between the separators
RECURSIVE Split(_, _)
Split(s, c) ==
    IF ~Contains(s, c) THEN <<s>>
    ELSE LET k == FirstIndex(s, c)
         IN  <<SubSeq(s, 1, k - 1)>> \o Split(SubSeq(s, k + 1, Len(s)), c)

\* str(n) for n >= 0
RECURSIVE Dec(_)
Dec(n) == IF n < 10 THEN <<Digits[n + 1]>> ELSE Dec(n \div 10) \o <<Digits[(n % 10) + 1]>>

-----------------------------------------------------------------------------
(* PDFHandler._get_pages *)

ValueError == [raised |-> TRUE]
Ok(v) == [raised |-> FALSE, value |-> v]

\* one iteration of `for r in pages.split(",")`: the {"start", "end"} entry
\* appended for token r, or the ValueError of the unpacking or of int()
TokenEntry(r, n) ==
    IF Contains(r, Dash)
    THEN LET parts == Split(r, Dash)
         IN  IF Len(parts) # 2 THEN ValueError
             ELSE LET a == parts[1]
                      b == parts[2]
                  IN  IF b = StrEnd
                      THEN IF IntRaises(a) THEN ValueError
                           ELSE Ok([start |-> IntOf(a), end |-> n])
                      ELSE IF IntRaises(a) \/ IntRaises(b) THEN ValueError
                           ELSE Ok([start |-> IntOf(a), end |-> IntOf(b)])
    ELSE IF IntRaises(r) THEN ValueError
         ELSE Ok([start |-> IntOf(r), end |-> IntOf(r)])

\* list(range(a, b + 1))
RangeList(a, b) == [k \in 1..(IF b >= a THEN b - a + 1 ELSE 0) |-> a + k - 1]

\* P after `for p in page_numbers: P.extend(range(p["start"], p["end"] + 1))`
RECURSIVE Extend(_)
Extend(page_numbers) ==
    IF Len(page_numbers) = 0 THEN <<>>
    ELSE RangeList(Head(page_numbers).start, Head(page_numbers).end)
         \o Extend(Tail(page_numbers))

\* set(P)
ToSet(P) == {P[k] : k \in 1..Len(P)}

\* sorted(S)
RECURSIVE Sorted(_)
Sorted(S) ==
    IF S = {} THEN <<>>
    ELSE LET m == CHOOSE x \in S : \A y \in S : x <= y
         IN  <<m>> \o Sorted(S \ {m})

PageList_unsorted(P) == P

\* `return sorted(set(P))`
PageList(P) == Sorted(ToSet(P))

\* page_numbers as built by lines 70-91, or the ValueError raised on the way
PageNumbers(s, n) ==
    IF IsDigit(s) THEN Ok(<<[start |-> IntOf(s), end |-> IntOf(s)]>>)
    ELSE IF s = StrAll THEN Ok(<<[start |-> 1, end |-> n]>>)
    ELSE LET rs == Split(s, Comma)
             es == [k \in 1..Len(rs) |-> TokenEntry(rs[k], n)]
         IN  IF \E k \in 1..Len(rs) : es[k].raised THEN ValueError
             ELSE Ok([k \in 1..Len(rs) |-> es[k].value])

\* _get_pages(pages) on a document of n pages
GetPages(s, n) ==
    LET pn == PageNumbers(s, n)
    IN  IF pn.raised THEN ValueError ELSE Ok(PageList(Extend(pn.value)))

-----------------------------------------------------------------------------
(* The selection strings the model is run on. *)

NumAtoms == {Dec(k) : k \in 0..MaxNum}

Tokens ==
    NumAtoms \cup {<<>>}
    \cup {a \o <<Dash>> \o b : a \in NumAtoms \cup {StrX}, b \in NumAtoms \cup {StrEnd}}

RECURSIVE TokenLists(_)
TokenLists(k) ==
    IF k = 1 THEN Tokens
    ELSE LET shorter == TokenLists(k - 1)
         IN  shorter \cup {s \o <<Comma>> \o t : s \in shorter, t \in Tokens}

SelectionStrings ==
    TokenLists(MaxTokens)
    \cup {StrAll, StrEnd, StrX, <<Dash>>, StrAll \o <<Comma>> \o Dec(1),
          Dec(1) \o <<Dash>> \o StrAll,
          Dec(1) \o <<Dash>> \o Dec(2) \o <<Dash>> \o Dec(3)}

-----------------------------------------------------------------------------
(* Values and file names. *)

None == "None"
NoParser == [page |-> -1]
Empty == <<>>

\* f"page-{page}.pdf" in the temporary directory
PagePath(page) == <<"page-", page, ".pdf">>

\* froot.replace("page", "p") + "_rotated" + fext
RotatedPath(page) == <<"p-", page, "_rotated", ".pdf">>

\* rootname + ".png"
PngPath(page) == <<"page-", page, ".png">>

Idle ==
    /\ flavor = None
    /\ pdf_layouts = Empty
    /\ pdf_sizes = Empty
    /\ pdf_images = Empty
    /\ page_info = <<>>
    /\ i = 0
    /\ tempdir = Empty
    /\ layoutRuns = Empty
    /\ saved = Empty
    /\ parser = NoParser
    /\ extracted = {}
    /\ error = "none"

-----------------------------------------------------------------------------
(* SpecPages: __init__ calling _get_pages. *)

InitPages ==
    /\ pagesArg \in SelectionStrings
    /\ numPages \in 1..MaxNumPages
    /\ docAuth = "plain"
    /\ pages = None
    /\ pc = "init"
    /\ Idle

\* `self.pages = self._get_pages(pages)`
CallGetPages ==
    /\ pc = "init"
    /\ LET r == GetPages(pagesArg, numPages)
       IN  IF r.raised
           THEN /\ pc' = "ValueError"
                /\ pages' = pages
           ELSE /\ pc' = "constructed"
                /\ pages' = r.value
    /\ UNCHANGED <<pagesArg, numPages, docAuth, flavor, pdf_layouts, pdf_sizes,
                   pdf_images, page_info, i, tempdir, layoutRuns, saved, parser,
                   extracted, error>>

NextPages == CallGetPages

SpecPages == InitPages /\ [][NextPages]_vars

-----------------------------------------------------------------------------
(* The source document, single-page documents and the rotation fix. *)

\* infile.getPage(index): the page at a Python list index (a negative index
\* counts from the end), or IndexError
HasPage(index, n) == -n <= index /\ index < n

GetPage(index, n) ==
    [source |-> IF index < 0 THEN n + index ELSE index, rotate |-> 0]

\* p.rotateClockwise(angle): /Rotate, kept modulo a full turn
RotateClockwise(p, angle) == [p EXCEPT !.rotate = (@ + angle) % 360]

\* p.rotateCounterClockwise(angle)
RotateCounterClockwise(p, angle) == [p EXCEPT !.rotate = (@ + 360 - angle) % 360]

FixRotation_swapped(p, rotation) ==
    IF rotation = "anticlockwise" THEN RotateCounterClockwise(p, 90)
    ELSE IF rotation = "clockwise" THEN RotateClockwise(p, 90)
    ELSE p

\* the `if rotation == "anticlockwise": ... elif rotation == "clockwise": ...`
FixRotation(p, rotation) ==
    IF rotation = "anticlockwise" THEN RotateClockwise(p, 90)
    ELSE IF rotation = "clockwise" THEN RotateCounterClockwise(p, 90)
    ELSE p

\* what get_rotation can return
RotationVerdicts == {"", "clockwise", "anticlockwise"}

\* `with open(path, "wb") as f: outfile.write(f)`
WriteFile(dir, path, content) == (path :> content) @@ dir

\* os.rename(src, dst)
Rename(dir, src, dst) ==
    [f \in (DOMAIN dir \ {src}) \cup {dst} |-> IF f = dst THEN dir[src] ELSE dir[f]]

Raise(kind, dir) == [error |-> kind, dir |-> dir]

\* a variant that opens the output file before the page is fetched
SavePage_openFirst(auth, n, page, dir, rotation, layoutOk) ==
    LET d0 == WriteFile(dir, PagePath(page), None)
    IN  IF auth = "encrypted_bad" THEN Raise("AuthenticationError", d0)
        ELSE IF ~HasPage(page - 1, n) THEN Raise("PageIndexError", d0)
        ELSE LET d1 == WriteFile(dir, PagePath(page), GetPage(page - 1, n))
             IN  IF ~layoutOk THEN Raise("LayoutAnalysisFailure", d1)
                 ELSE IF rotation # ""
                 THEN LET d2 == Rename(d1, PagePath(page), RotatedPath(page))
                      IN  Raise("none", WriteFile(d2, PagePath(page),
                                    FixRotation(d2[RotatedPath(page)], rotation)))
                 ELSE Raise("none", d1)

\* _save_page(filepath, page, temp) on a document of n pages: the exception
\* that leaves it ("none": it returns) and the directory it leaves.  A wrong
\* password fails in decrypt (line 114) or, undecrypted, in getPage (line
\* 117); both come before the output file is opened (line 120).  rotation is
\* get_rotation's verdict, layoutOk whether get_page_layout returns.
SavePage(auth, n, page, dir, rotation, layoutOk) ==
    IF auth = "encrypted_bad" THEN Raise("AuthenticationError", dir)
    ELSE IF ~HasPage(page - 1, n) THEN Raise("PageIndexError", dir)
    ELSE LET d1 == WriteFile(dir, PagePath(page), GetPage(page - 1, n))
         IN  IF ~layoutOk THEN Raise("LayoutAnalysisFailure", d1)
             ELSE IF rotation # ""
             THEN LET d2 == Rename(d1, PagePath(page), RotatedPath(page))
                  IN  Raise("none", WriteFile(d2, PagePath(page),
                                FixRotation(d2[RotatedPath(page)], rotation)))
             ELSE Raise("none", d1)

-----------------------------------------------------------------------------
(* PDFHandler._check_page_data *)

\* dict.get(key, None)
Get(m, key) == IF key \in DOMAIN m THEN m[key] ELSE None

FileRequired_always(fl, layouts, sizes, images, page) == TRUE

\* lines 198-203: the file_required of one page
FileRequired(fl, layouts, sizes, images, page) ==
    IF page \notin DOMAIN layouts \/ page \notin DOMAIN sizes THEN TRUE
    ELSE IF fl = "lattice" /\ page \notin DOMAIN images THEN TRUE
    ELSE FALSE

CheckPageData(fl, layouts, sizes, images, selected) ==
    [k \in 1..Len(selected) |->
        [page |-> selected[k],
         layout |-> Get(layouts, selected[k]),
         size |-> Get(sizes, selected[k]),
         image |-> Get(images, selected[k]),
         file |-> PagePath(selected[k]),
         file_required |-> FileRequired(fl, layouts, sizes, images, selected[k])]]

-----------------------------------------------------------------------------
(* BaseParser._generate_layout *)

AnalysedLayout(path) == <<"layout", "analysed", path>>
AnalysedSize(path) == <<"size", "analysed", path>>

\* the fields set from one page_info entry; get_page_layout is called only
\* when the entry has no layout or no size, and it needs the page's file
GenerateLayout(info, dir) ==
    LET analyse == info.layout = None \/ info.size = None
    IN  IF analyse /\ info.file \notin DOMAIN dir THEN [error |-> "FileNotFound"]
        ELSE [error |-> "none", analysed |-> analyse,
              fields |-> [page |-> info.page, filename |-> info.file,
                          layout |-> IF analyse THEN AnalysedLayout(info.file)
                                     ELSE info.layout,
                          dimensions |-> IF analyse THEN AnalysedSize(info.file)
                                         ELSE info.size,
                          imagename |-> IF info.image # None THEN info.image
                                        ELSE PngPath(info.page)]]

-----------------------------------------------------------------------------
(* Spec: PDFHandler.parse on a constructed handler. *)

\* what a caller's cache mapping holds for one page, per mapping
CacheProfiles ==
    LET v == "valid"
        a == "absent"
    IN  {<<v, v, v>>, <<a, a, a>>,
         <<a, v, v>>, <<v, a, v>>, <<v, v, a>>,
         <<None, v, v>>, <<v, None, v>>, <<v, v, None>>, <<None, None, None>>}

Supplied(kind, page) == <<kind, "supplied", page>>

\* the mapping a caller passes, from the profile of each selected page
CacheMapping(prof, field, kind) ==
    [p \in {q \in DOMAIN prof : prof[q][field] # "absent"} |->
        IF prof[p][field] = None THEN None ELSE Supplied(kind, p)]

ParseSelections ==
    Tokens \cup {StrAll}
    \cup {Dec(c[1]) \o <<Comma>> \o Dec(c[2]) :
            c \in {x \in (0..MaxNum) \X (0..MaxNum) : x[1] < x[2]}}

PageNums == 0..(IF MaxNum > MaxNumPages THEN MaxNum ELSE MaxNumPages)

\* A handler whose construction returned.  Whether getNumPages succeeds on a
\* document the password does not decrypt is the PDF library's: both allowed.
Init ==
    /\ pagesArg \in ParseSelections
    /\ numPages \in 1..MaxNumPages
    /\ docAuth \in {"plain", "encrypted_ok", "encrypted_bad"}
    /\ ~GetPages(pagesArg, numPages).raised
    /\ pages = GetPages(pagesArg, numPages).value
    /\ Len(pages) <= MaxSelected
    /\ pc = "constructed"
    /\ flavor = None
    /\ pdf_layouts = Empty
    /\ pdf_sizes = Empty
    /\ pdf_images = Empty
    /\ page_info = <<>>
    /\ i = 0
    /\ tempdir = Empty
    /\ layoutRuns = [p \in PageNums |-> 0]
    /\ saved = Empty
    /\ parser = NoParser
    /\ extracted = {}
    /\ error = "none"

\* parse(flavor, pdf_layouts=..., pdf_sizes=..., pdf_images=...) up to the
\* return of _check_page_data
CallParse ==
    /\ pc = "constructed"
    /\ \E fl \in {"lattice", "stream"}, prof \in [ToSet(pages) -> CacheProfiles] :
          /\ flavor' = fl
          /\ pdf_layouts' = CacheMapping(prof, 1, "layout")
          /\ pdf_sizes' = CacheMapping(prof, 2, "size")
          /\ pdf_images' = CacheMapping(prof, 3, "image")
          /\ page_info' = CheckPageData(fl, pdf_layouts', pdf_sizes', pdf_images', pages)
    /\ i' = 1
    /\ pc' = "save"
    /\ UNCHANGED <<pagesArg, numPages, docAuth, pages, tempdir, layoutRuns, saved,
                   parser, extracted, error>>

\* a variant of the first loop that catches the exception of _save_page
MaterializePage_swallow ==
    /\ pc = "save"
    /\ i <= Len(page_info)
    /\ page_info[i].file_required
    /\ \E rotation \in RotationVerdicts, layoutOk \in BOOLEAN :
          LET page == page_info[i].page
              r == SavePage(docAuth, numPages, page, tempdir, rotation, layoutOk)
          IN  /\ tempdir' = r.dir
              /\ saved' = IF r.error = "none" THEN (page :> rotation) @@ saved ELSE saved
              /\ layoutRuns' = IF r.error = "none"
                               THEN [layoutRuns EXCEPT ![page] = @ + 1] ELSE layoutRuns
    /\ i' = i + 1
    /\ UNCHANGED <<pagesArg, numPages, docAuth, pages, flavor, pdf_layouts, pdf_sizes,
                   pdf_images, page_info, parser, extracted, error, pc>>

\* one iteration of the first loop on an entry with file_required: _save_page
MaterializePage ==
    /\ pc = "save"
    /\ i <= Len(page_info)
    /\ page_info[i].file_required
    /\ \E rotation \in RotationVerdicts, layoutOk \in BOOLEAN :
          LET page == page_info[i].page
              r == SavePage(docAuth, numPages, page, tempdir, rotation, layoutOk)
          IN  /\ tempdir' = r.dir
              /\ IF r.error = "none"
                 THEN /\ saved' = (page :> rotation) @@ saved
                      /\ layoutRuns' = [layoutRuns EXCEPT ![page] = @ + 1]
                      /\ i' = i + 1
                      /\ UNCHANGED <<pc, error>>
                 ELSE /\ error' = r.error
                      /\ pc' = "raising"
                      /\ UNCHANGED <<saved, layoutRuns, i>>
    /\ UNCHANGED <<pagesArg, numPages, docAuth, pages, flavor, pdf_layouts, pdf_sizes,
                   pdf_images, page_info, parser, extracted>>

\* one iteration of the first loop on an entry without file_required
SkipPage ==
    /\ pc = "save"
    /\ i <= Len(page_info)
    /\ ~page_info[i].file_required
    /\ i' = i + 1
    /\ UNCHANGED <<pagesArg, numPages, docAuth, pages, pc, flavor, pdf_layouts,
                   pdf_sizes, pdf_images, page_info, tempdir, layoutRuns, saved,
                   parser, extracted, error>>

\* the first loop is over: the parser is built and the second loop starts
StartExtraction ==
    /\ pc = "save"
    /\ i > Len(page_info)
    /\ pc' = "extract"
    /\ i' = 1
    /\ UNCHANGED <<pagesArg, numPages, docAuth, pages, flavor, pdf_layouts, pdf_sizes,
                   pdf_images, page_info, tempdir, layoutRuns, saved, parser,
                   extracted, error>>

\* one iteration of the second loop: parser.extract_tables(p, ...), which
\* starts with _generate_layout(p, layout_kwargs)
ExtractTables ==
    /\ pc = "extract"
    /\ i <= Len(page_info)
    /\ LET info == page_info[i]
           r == GenerateLayout(info, tempdir)
       IN  /\ extracted' = extracted \cup {info.page}
           /\ IF r.error = "none"
              THEN /\ parser' = r.fields
                   /\ layoutRuns' = IF r.analysed
                                    THEN [layoutRuns EXCEPT ![info.page] = @ + 1]
                                    ELSE layoutRuns
                   /\ i' = i + 1
                   /\ UNCHANGED <<pc, error>>
              ELSE /\ error' = r.error
                   /\ pc' = "raising"
                   /\ UNCHANGED <<parser, layoutRuns, i>>
    /\ UNCHANGED <<pagesArg, numPages, docAuth, pages, flavor, pdf_layouts, pdf_sizes,
                   pdf_images, page_info, tempdir, saved>>

\* the with block is left normally: the directory is removed, parse returns
Return ==
    /\ pc = "extract"
    /\ i > Len(page_info)
    /\ tempdir' = Empty
    /\ pc' = "done"
    /\ UNCHANGED <<pagesArg, numPages, docAuth, pages, flavor, pdf_layouts, pdf_sizes,
                   pdf_images, page_info, i, layoutRuns, saved, parser, extracted,
                   error>>

\* the with block is left by an exception: the directory is removed and the
\* exception reaches the caller of parse
Cleanup ==
    /\ pc = "raising"
    /\ tempdir' = Empty
    /\ pc' = "failed"
    /\ UNCHANGED <<pagesArg, numPages, docAuth, pages, flavor, pdf_layouts, pdf_sizes,
                   pdf_images, page_info, i, layoutRuns, saved, parser, extracted,
                   error>>

Next ==
    \/ CallParse
    \/ MaterializePage
    \/ SkipPage
    \/ StartExtraction
    \/ ExtractTables
    \/ Return
    \/ Cleanup

Spec == Init /\ [][Next]_vars

-----------------------------------------------------------------------------
(* The selection grammar, read off the string without the code's parse:    *)
(* the tokens are the pieces between commas; a token is N, A-B or A-end.   *)

Cuts(s) == {0, Len(s) + 1} \cup {k \in 1..Len(s) : s[k] = Comma}

Segments(s) ==
    {SubSeq(s, a + 1, b - 1) :
        <<a, b>> \in {c \in Cuts(s) \X Cuts(s) :
                        c[1] < c[2] /\ ~\E m \in Cuts(s) : c[1] < m /\ m < c[2]}}

\* the page ranges a token can stand for on a document of n pages
TokenMeanings(seg, n) ==
    {[lo |-> a, hi |-> a] : a \in {x \in 0..MaxNum : seg = Dec(x)}}
    \cup {[lo |-> a, hi |-> n] :
            a \in {x \in 0..MaxNum : seg = Dec(x) \o <<Dash>> \o StrEnd}}
    \cup {[lo |-> c[1], hi |-> c[2]] :
            c \in {x \in (0..MaxNum) \X (0..MaxNum) :
                     seg = Dec(x[1]) \o <<Dash>> \o Dec(x[2])}}

Grammatical(s, n) ==
    s = StrAll \/ \A seg \in Segments(s) : TokenMeanings(seg, n) # {}

\* grammatical, and no range has its lower bound above its upper bound
WellFormed(s, n) ==
    s = StrAll \/ \A seg \in Segments(s) : \E m \in TokenMeanings(seg, n) : m.lo <= m.hi

SelectedPages(s, n) ==
    IF s = StrAll THEN 1..n
    ELSE UNION {m.lo..m.hi : m \in UNION {TokenMeanings(seg, n) : seg \in Segments(s)}}

StrictlyIncreasing(P) == \A k \in 1..(Len(P) - 1) : P[k] < P[k + 1]

Returned == pc = "constructed"
Called == pc \in {"constructed", "ValueError"}

\* C1: for every well-formed selection string and page count, _get_pages
\* returns the strictly increasing list whose elements are exactly the union
\* of the token ranges ("end" standing for the page count, "all" for 1..N).
C1_PagesAreSortedUnion ==
    (Called /\ WellFormed(pagesArg, numPages)) =>
        /\ Returned
        /\ StrictlyIncreasing(pages)
        /\ {pages[k] : k \in 1..Len(pages)} = SelectedPages(pagesArg, numPages)

\* "2-2,1" gives [1, 2]
C1_Witness ==
    /\ Returned
    /\ pagesArg = <<"2", "-", "2", ",", "1">>
    /\ pages = <<1, 2>>

\* C2: a string with an invalid token, or with a range whose lower bound
\* exceeds its upper bound after "end" is resolved, never returns a list.
C2_MalformedAlwaysFails ==
    (Called /\ ~WellFormed(pagesArg, numPages)) => ~Returned

\* C7: every page number _get_pages returns is >= 1.
C7_PagesPositive ==
    Returned => \A k \in 1..Len(pages) : pages[k] >= 1

\* side facts used to place the failures of C2
UngrammaticalFails == (Called /\ ~Grammatical(pagesArg, numPages)) => ~Returned
ReversedReturns ==
    (Called /\ Grammatical(pagesArg, numPages) /\ ~WellFormed(pagesArg, numPages))
        => Returned

-----------------------------------------------------------------------------
(* Claims about parse(), _check_page_data, _save_page, _generate_layout. *)

\* the temporary directory exists
Live == pc \in {"save", "extract", "raising"}

MaterializationErrors == {"AuthenticationError", "PageIndexError", "LayoutAnalysisFailure"}

FilesOfPage(p) == {f \in DOMAIN tempdir : f[2] = p}

\* C3: within one parse() run, layout analysis (get_page_layout) runs at most
\* once per selected page.
C3_LayoutAtMostOnce ==
    \A p \in DOMAIN layoutRuns : layoutRuns[p] <= 1

\* C4: every entry of _check_page_data has file_required whenever its layout
\* or size is absent and, for lattice, whenever its image is absent; for
\* stream an absent image alone does not set it.
C4_FileRequiredWhenAbsent ==
    \A k \in 1..Len(page_info) :
        LET e == page_info[k]
        IN  /\ (e.layout = None \/ e.size = None) => e.file_required
            /\ (flavor = "lattice" /\ e.image = None) => e.file_required
            /\ (flavor = "stream" /\ e.layout # None /\ e.size # None)
                   => ~e.file_required

\* the caller supplied valid layout and size (and, for lattice, image) for p
FullySupplied(p) ==
    /\ Get(pdf_layouts, p) # None
    /\ Get(pdf_sizes, p) # None
    /\ flavor = "lattice" => Get(pdf_images, p) # None

\* C5: a selected page whose layout, size and (for lattice) image are all
\* supplied is never materialized, no layout analysis runs for it, and the
\* parser is given the supplied layout, size and image unchanged.
C5_SuppliedPageIsReused ==
    \A k \in 1..Len(page_info) :
        LET p == page_info[k].page
        IN  FullySupplied(p) =>
              /\ p \notin DOMAIN saved
              /\ FilesOfPage(p) = {}
              /\ layoutRuns[p] = 0
              /\ (error \in MaterializationErrors) => page_info[i].page # p
              /\ parser.page = p =>
                    /\ parser.layout = pdf_layouts[p]
                    /\ parser.dimensions = pdf_sizes[p]
                    /\ Get(pdf_images, p) # None => parser.imagename = pdf_images[p]

\* a lattice run returned in which a fully supplied page was extracted last
C5_Witness ==
    /\ pc = "done"
    /\ flavor = "lattice"
    /\ Len(page_info) = 2
    /\ FullySupplied(parser.page)
    /\ page_info[1].page \in DOMAIN saved

\* C6: no extract_tables call begins before every entry with file_required
\* has been materialized; when a materialization fails the error leaves
\* parse(), the pages materialized are those before the failing one, and no
\* extract_tables call is made in that run.
C6_AllOrNothing ==
    /\ extracted # {} =>
          \A k \in 1..Len(page_info) :
              page_info[k].file_required => page_info[k].page \in DOMAIN saved
    /\ DOMAIN saved # {page_info[k].page : k \in {j \in 1..Len(page_info) :
                                              page_info[j].file_required}}
          => extracted = {}
    /\ error \in MaterializationErrors =>
          /\ pc \in {"raising", "failed"}
          /\ extracted = {}
          /\ DOMAIN saved = {page_info[k].page :
                                k \in {j \in 1..(i - 1) : page_info[j].file_required}}

\* the first page failed to materialize, a later page needed a file, and the
\* error reached the caller
C6_Witness ==
    /\ pc = "failed"
    /\ error \in MaterializationErrors
    /\ i = 1
    /\ Len(page_info) = 2
    /\ page_info[2].file_required

\* C8: when _save_page fails because the page index exceeds the page count or
\* because the password does not decrypt the document, no file of that page
\* is in the working directory at the moment of failure.
C8_NoFileOnFailure ==
    (pc = "raising" /\ error \in {"PageIndexError", "AuthenticationError"}) =>
        FilesOfPage(page_info[i].page) = {}

\* the second page is beyond the page count; the first page's file is there
C8_Witness ==
    /\ pc = "raising"
    /\ error = "PageIndexError"
    /\ i = 2
    /\ page_info[i].page > numPages
    /\ DOMAIN tempdir = {PagePath(page_info[1].page)}

\* the single-page document _save_page left is the extracted page turned
\* clockwise by the given quarter turns
TurnedClockwise(p, quarters) ==
    /\ PagePath(p) \in DOMAIN tempdir
    /\ tempdir[PagePath(p)].rotate = (90 * quarters) % 360

\* C9 as amended: the page of a "clockwise" verdict is rotated
\* counter-clockwise by 90 degrees, the page of an "anticlockwise" verdict
\* clockwise by 90 degrees, and a page with no verdict is not rotated.
C9_RotationOppositeToVerdict ==
    Live => \A p \in DOMAIN saved :
        /\ saved[p] = "clockwise" => TurnedClockwise(p, 3)
        /\ saved[p] = "anticlockwise" => TurnedClockwise(p, 1)
        /\ saved[p] = "" => TurnedClockwise(p, 0)

\* a page with verdict "clockwise" and one with "anticlockwise" were saved
C9_Witness ==
    /\ Live
    /\ \E p \in DOMAIN saved : saved[p] = "clockwise" /\ TurnedClockwise(p, 3)
    /\ \E p \in DOMAIN saved : saved[p] = "anticlockwise" /\ TurnedClockwise(p, 1)

\* C9 as stated: a "clockwise" verdict is corrected by rotating clockwise by
\* 90 degrees, an "anticlockwise" verdict by rotating counter-clockwise by 90
\* degrees, and no verdict applies no rotation.
C9_RotationSameAsVerdict ==
    Live => \A p \in DOMAIN saved :
        /\ saved[p] = "clockwise" => TurnedClockwise(p, 1)
        /\ saved[p] = "anticlockwise" => TurnedClockwise(p, 3)
        /\ saved[p] = "" => TurnedClockwise(p, 0)

\* C10: after _save_page completes for page N the page is at page-N.pdf, the
\* intermediate p-N_rotated.pdf does not exist, and the working directory
\* holds exactly one file for page N.
C10_OneFilePerPage ==
    Live => \A p \in DOMAIN saved :
        /\ PagePath(p) \in DOMAIN tempdir
        /\ RotatedPath(p) \notin DOMAIN tempdir
        /\ Cardinality(FilesOfPage(p)) = 1

\* side fact: a page saved without a verdict leaves exactly one file
OneFileWhenUpright ==
    Live => \A p \in DOMAIN saved : saved[p] = "" => FilesOfPage(p) = {PagePath(p)}

=============================================================================
